---------------------------- MODULE Spec2Model ----------------------------
(***************************************************************************)
(* Credential store of the WiseTech LMS REST API.                          *)
(*                                                                         *)
(* The store is the SQLite database opened by NewConnection and laid out   *)
(* by SqliteSchema (internal/database/database.go); the operations are     *)
(* the five methods of authRepository                                      *)
(* (internal/repository/auth_repository.go).  Each goroutine that calls    *)
(* the repository is a process; database/sql gives every transaction and   *)
(* every autocommit statement a connection of its own, and SQLite lets     *)
(* one connection at a time hold the write (RESERVED) lock.  A connection  *)
(* reads the committed tables only.                                        *)
(*                                                                         *)
(* Token engine: the functions of package auth that mint and validate      *)
(* HS256-signed tokens, in the two variants the repository holds: the      *)
(* account/lender variant (internal/auth/jwt.go) and the single user-id    *)
(* variant (the package auth source kept in internal/server/server.go).    *)
(***************************************************************************)
EXTENDS Integers, FiniteSets, Sequences, TLC

\* ----------------------------------------------------------------- bounds
\* Last instant of the wall clock, in ticks.
MaxTime == 1
\* Number of rows the AUTOINCREMENT sequences of Lenders and Accounts may
\* hand out.
MaxRows == 2

\* Clock ticks in one second: CURRENT_TIMESTAMP has a resolution of one
\* second, time.Now() a finer one.
TicksPerSec == 2

\* ----------------------------------------------------------------- inputs
Procs == {"g1", "g2"}
Usernames == {"alice", "bob"}
PhoneNumbers == {"555"}
PasswordHashes == {"hash"}
\* Business profiles: name, email and interest rate of a lender to create.
\* The first two pass CHECK (Interest_Rate_Percent), the last two do not.
Profiles ==
    {[businessName |-> "Acme", email |-> "a@x", interestRate |-> 0],
     [businessName |-> "Bolt", email |-> "b@x", interestRate |-> 100],
     [businessName |-> "Acme", email |-> "b@x", interestRate |-> 101],
     [businessName |-> "Bolt", email |-> "a@x", interestRate |-> -1]}
IDs == 1..MaxRows

\* ----------------------------------------------------------------- errors
ErrNil == "nil"
ErrAccountNotFound == "account not found"
ErrLenderNotFound == "lender not found"
\* sql.ErrNoRows, as QueryRow(...).Scan reports it
ErrNoRows == "sql: no rows in result set"
\* Errors of the store that the repository passes through.
ErrStore == "store failure"
ErrBusy == "database is locked"
ErrConstraint == "constraint failed"

VARIABLES
    lenders,      \* committed rows of table Lenders
    accounts,     \* committed rows of table Accounts
    seqLenders,   \* sqlite_sequence entry of Lenders (AUTOINCREMENT)
    seqAccounts,  \* sqlite_sequence entry of Accounts (AUTOINCREMENT)
    writer,       \* the process whose transaction holds the write lock
    now,          \* the wall clock, in ticks
    proc,         \* per process: its position in the call it is executing
    last,         \* the call that returned in the latest step, with its result
    created,      \* history: per process, the CreateLenderAndAccount call it finished
    held,         \* the token string a client holds and presents for validation
    hashes,       \* the hashes HashPassword returned, each with its password
    verdicts      \* history: what earlier validations of the held token returned

vars ==
    <<lenders, accounts, seqLenders, seqAccounts, writer, now, proc, last, created,
      held, hashes, verdicts>>

\* What the callers keep outside the store.
callerVars == <<held, hashes, verdicts>>

NoWriter == "none"

\* ------------------------------------------------------------- timestamps
\* A time.Time bound as a statement parameter is written as text with its
\* fractional seconds; a DATETIME column is parsed back on Scan.
FormatTimestamp(t) == <<t \div TicksPerSec, t % TicksPerSec>>
ParseTimestamp(s) == s[1] * TicksPerSec + s[2]
\* SQLite's CURRENT_TIMESTAMP: 'YYYY-MM-DD HH:MM:SS', whole seconds.
CURRENT_TIMESTAMP == <<now \div TicksPerSec, 0>>

\* sql.NullTime
NullTime == [Valid |-> FALSE, Time |-> 0]
ValidTime(t) == [Valid |-> TRUE, Time |-> t]

\* NewConnection opens the database with sql.Open("sqlite3", cfg.DBPath):
\* no _foreign_keys option and no PRAGMA foreign_keys = ON, so SQLite keeps
\* its default and does not enforce REFERENCES clauses.
ForeignKeysEnabled == FALSE

\* ------------------------------------------------------------------ rows
\* Faulty variant of LenderRow: the parameters of the INSERT are bound in the
\* wrong order, the phone number lands in Business_Name.
LenderRowMisbound(id, businessName, phone, email, interestRate, t) ==
    [Lender_ID |-> id, Business_Name |-> phone, Phone_Number |-> businessName,
     Email |-> email, Interest_Rate_Percent |-> interestRate,
     Created_At |-> FormatTimestamp(t), Updated_At |-> FormatTimestamp(t),
     Is_Active |-> 1]

\* A row of Lenders as the INSERT of CreateLenderAndAccount writes it;
\* Is_Active takes the column default 1.
LenderRow(id, businessName, phone, email, interestRate, t) ==
    [Lender_ID |-> id, Business_Name |-> businessName, Phone_Number |-> phone,
     Email |-> email, Interest_Rate_Percent |-> interestRate,
     Created_At |-> FormatTimestamp(t), Updated_At |-> FormatTimestamp(t),
     Is_Active |-> 1]

\* A row of Accounts as the INSERT of CreateLenderAndAccount writes it;
\* Last_Login is not in the column list and is NULL, Is_Locked defaults to 0.
AccountRow(id, lenderID, username, passwordHash, t) ==
    [Account_ID |-> id, Lender_ID |-> lenderID, Username |-> username,
     Password_Hash |-> passwordHash,
     Created_At |-> FormatTimestamp(t), Updated_At |-> FormatTimestamp(t),
     Last_Login |-> <<>>, Is_Locked |-> 0]

\* Faulty variant of LenderCheck: a schema without the CHECK constraint.
LenderCheckOff(interestRate) == TRUE

\* CHECK (Interest_Rate_Percent >= 0 AND Interest_Rate_Percent <= 100)
LenderCheck(interestRate) == interestRate >= 0 /\ interestRate <= 100

\* Email TEXT NOT NULL UNIQUE
LenderEmailUnique(email) == \A l \in lenders : l.Email # email

\* Faulty variant of AccountUsernameUnique: a schema without the UNIQUE
\* constraint on Username.
AccountUsernameNotUnique(username) == TRUE

\* Username TEXT NOT NULL UNIQUE
AccountUsernameUnique(username) == \A a \in accounts : a.Username # username

\* Lender_ID INTEGER NOT NULL REFERENCES Lenders(Lender_ID): checked only
\* when foreign keys are enabled.  txLenders are the rows the inserting
\* transaction added itself.
AccountForeignKey(lenderID, txLenders) ==
    ForeignKeysEnabled =>
        \E l \in lenders \cup txLenders : l.Lender_ID = lenderID

\* Scan of an Accounts row into models.Account.
ScanAccount(a) ==
    [AccountID |-> a.Account_ID, LenderID |-> a.Lender_ID,
     Username |-> a.Username, PasswordHash |-> a.Password_Hash,
     CreatedAt |-> ParseTimestamp(a.Created_At),
     UpdatedAt |-> ParseTimestamp(a.Updated_At),
     LastLogin |-> IF a.Last_Login = <<>> THEN NullTime
                   ELSE ValidTime(ParseTimestamp(a.Last_Login)),
     IsLocked |-> a.Is_Locked # 0]

\* Scan of a Lenders row into models.Lender.
ScanLender(l) ==
    [LenderID |-> l.Lender_ID, BusinessName |-> l.Business_Name,
     PhoneNumber |-> l.Phone_Number, Email |-> l.Email,
     InterestRatePercent |-> l.Interest_Rate_Percent,
     CreatedAt |-> ParseTimestamp(l.Created_At),
     UpdatedAt |-> ParseTimestamp(l.Updated_At),
     IsActive |-> l.Is_Active # 0]

\* ------------------------------------------------------------- processes
\* A process that is not inside a call.
Idle == [pc |-> "idle"]
IsIdle(p) == proc[p].pc = "idle"

\* No call returned in the latest step / the process has finished no creation.
NoCall == [op |-> "none"]

\* Process p returns ret from its call of op with arguments args.
Return(p, op, args, ret) ==
    /\ proc' = [proc EXCEPT ![p] = Idle]
    /\ last' = [op |-> op, args |-> args, ret |-> ret]

Init ==
    /\ lenders = {}
    /\ accounts = {}
    /\ seqLenders = 0
    /\ seqAccounts = 0
    /\ writer = NoWriter
    /\ now = 0
    /\ proc = [p \in Procs |-> Idle]
    /\ last = NoCall
    /\ created = [p \in Procs |-> NoCall]
    /\ held = [raw |-> ""]
    /\ hashes = {}
    /\ verdicts = {}

\* The wall clock advances.
Tick ==
    /\ now < MaxTime
    /\ now' = now + 1
    /\ last' = NoCall
    /\ UNCHANGED <<lenders, accounts, seqLenders, seqAccounts, writer, proc>>

\* ------------------------------------------------ CreateLenderAndAccount
\* Process p returns (id, err) from CreateLenderAndAccount(args).
CreateReturn(p, args, id, err) ==
    Return(p, "CreateLenderAndAccount", args, [id |-> id, err |-> err])

\* Lines 36-43: r.db.Begin(), defer tx.Rollback(), now := time.Now().
\* beginFails: Begin returns an error and the call returns (0, err).
CreateLenderAndAccount_Begin(p, businessName, email, phone, username, passwordHash, interestRate, beginFails) ==
    LET args == [businessName |-> businessName, email |-> email,
                 phone |-> phone, username |-> username,
                 passwordHash |-> passwordHash, interestRate |-> interestRate]
    IN  /\ IsIdle(p)
        /\ seqLenders < MaxRows
        /\ seqAccounts < MaxRows
        /\ IF beginFails
           THEN CreateReturn(p, args, 0, ErrStore)
           ELSE /\ proc' = [proc EXCEPT ![p] =
                              [pc |-> "begun", args |-> args, now |-> now,
                               txLenders |-> {}, txAccounts |-> {}]]
                /\ last' = NoCall
        /\ UNCHANGED <<lenders, accounts, seqLenders, seqAccounts, writer, now>>

\* Faulty variant of CreateLenderAndAccount_InsertLender: the statement is
\* prepared on r.db instead of tx, so the INSERT commits on its own.
CreateLenderAndAccount_InsertLenderAutocommit(p, storeFails, busyTimeout) ==
    LET c == proc[p]
        a == c.args
        lenderID == seqLenders + 1
        row == LenderRow(lenderID, a.businessName, a.phone, a.email,
                         a.interestRate, c.now)
    IN  /\ c.pc = "begun"
        /\ seqLenders < MaxRows
        /\ seqAccounts < MaxRows
        /\ writer # NoWriter => (storeFails \/ busyTimeout)
        /\ busyTimeout => (writer # NoWriter /\ ~storeFails)
        /\ IF storeFails THEN
              /\ CreateReturn(p, a, 0, ErrStore)
              /\ UNCHANGED <<writer, lenders>>
           ELSE IF writer # NoWriter THEN
              /\ CreateReturn(p, a, 0, ErrBusy)
              /\ UNCHANGED <<writer, lenders>>
           ELSE IF ~LenderCheck(a.interestRate) \/ ~LenderEmailUnique(a.email) THEN
              /\ CreateReturn(p, a, 0, ErrConstraint)
              /\ UNCHANGED <<writer, lenders>>
           ELSE
              /\ proc' = [proc EXCEPT ![p] =
                            [c EXCEPT !.pc = "lender", !.txLenders = {row}]]
              /\ lenders' = lenders \cup {row}
              /\ writer' = p
              /\ last' = NoCall
        /\ UNCHANGED <<accounts, seqLenders, seqAccounts, now>>

\* Lines 46-60: prepare and execute the INSERT into Lenders, LastInsertId.
\* storeFails: Prepare, Exec or LastInsertId fails for a reason of the
\* store; the deferred Rollback discards whatever the transaction wrote.
\* The INSERT needs the write lock: while another transaction holds it the
\* statement waits, and gives up with SQLITE_BUSY when the wait times out
\* (busyTimeout, which can only happen while the lock is held).
CreateLenderAndAccount_InsertLender(p, storeFails, busyTimeout) ==
    LET c == proc[p]
        a == c.args
        lenderID == seqLenders + 1
    IN  /\ c.pc = "begun"
        /\ seqLenders < MaxRows
        /\ seqAccounts < MaxRows
        /\ writer # NoWriter => (storeFails \/ busyTimeout)
        /\ busyTimeout => (writer # NoWriter /\ ~storeFails)
        /\ IF storeFails THEN
              /\ CreateReturn(p, a, 0, ErrStore)
              /\ UNCHANGED writer
           ELSE IF writer # NoWriter THEN
              /\ CreateReturn(p, a, 0, ErrBusy)
              /\ UNCHANGED writer
           ELSE IF ~LenderCheck(a.interestRate) \/ ~LenderEmailUnique(a.email) THEN
              /\ CreateReturn(p, a, 0, ErrConstraint)
              /\ UNCHANGED writer
           ELSE
              /\ proc' = [proc EXCEPT ![p] =
                            [c EXCEPT !.pc = "lender",
                                      !.txLenders = {LenderRow(lenderID,
                                          a.businessName, a.phone, a.email,
                                          a.interestRate, c.now)}]]
              /\ writer' = p
              /\ last' = NoCall
        /\ UNCHANGED <<lenders, accounts, seqLenders, seqAccounts, now>>

\* Lines 63-77: prepare and execute the INSERT into Accounts, LastInsertId.
\* On every error return the deferred Rollback drops the lender row of the
\* transaction and releases the write lock.
CreateLenderAndAccount_InsertAccount(p, storeFails) ==
    LET c == proc[p]
        a == c.args
        lenderID == (CHOOSE l \in c.txLenders : TRUE).Lender_ID
        accountID == seqAccounts + 1
    IN  /\ c.pc = "lender"
        /\ IF storeFails THEN
              /\ CreateReturn(p, a, 0, ErrStore)
              /\ writer' = NoWriter
           ELSE IF \/ ~AccountUsernameUnique(a.username)
                   \/ ~AccountForeignKey(lenderID, c.txLenders) THEN
              /\ CreateReturn(p, a, 0, ErrConstraint)
              /\ writer' = NoWriter
           ELSE
              /\ proc' = [proc EXCEPT ![p] =
                            [c EXCEPT !.pc = "account",
                                      !.txAccounts = {AccountRow(accountID,
                                          lenderID, a.username,
                                          a.passwordHash, c.now)}]]
              /\ last' = NoCall
              /\ UNCHANGED writer
        /\ UNCHANGED <<lenders, accounts, seqLenders, seqAccounts, now>>

\* Line 79: return int(accountID), tx.Commit().
\* commitFails: Commit returns an error; the driver rolls the transaction
\* back, and the call returns the account id together with the error.
CreateLenderAndAccount_Commit(p, commitFails) ==
    LET c == proc[p]
        accountID == (CHOOSE r \in c.txAccounts : TRUE).Account_ID
    IN  /\ c.pc = "account"
        /\ writer' = NoWriter
        /\ IF commitFails THEN
              /\ CreateReturn(p, c.args, accountID, ErrStore)
              /\ UNCHANGED <<lenders, accounts, seqLenders, seqAccounts>>
           ELSE
              /\ CreateReturn(p, c.args, accountID, ErrNil)
              /\ lenders' = lenders \cup c.txLenders
              /\ accounts' = accounts \cup c.txAccounts
              /\ seqLenders' = seqLenders + 1
              /\ seqAccounts' = seqAccounts + 1
        /\ UNCHANGED now

\* ------------------------------------------------------------------ reads
\* db.QueryRow(query, key).Scan(...): the error of the Scan.  rows are the
\* committed rows the WHERE clause selects.
QueryRowScan(rows, storeFails) ==
    IF storeFails THEN ErrStore
    ELSE IF rows = {} THEN ErrNoRows
    ELSE ErrNil

\* Faulty variant of MapNoRows: sql.ErrNoRows is returned as it is.
MapNoRowsUnmapped(err, notFound) == err

\* if errors.Is(err, sql.ErrNoRows) { return nil, notFound }; return nil, err
MapNoRows(err, notFound) == IF err = ErrNoRows THEN notFound ELSE err

\* What GetAccountByUsername and GetAccountByID return for the rows their
\* query selects: a nil pointer is the empty set, a pointer a singleton.
GetAccount(rows, storeFails) ==
    LET err == QueryRowScan(rows, storeFails)
    IN  IF err # ErrNil
        THEN [account |-> {}, err |-> MapNoRows(err, ErrAccountNotFound)]
        ELSE [account |-> {ScanAccount(CHOOSE a \in rows : TRUE)}, err |-> ErrNil]

\* Lines 83-103.
GetAccountByUsername(p, username, storeFails) ==
    /\ IsIdle(p)
    /\ Return(p, "GetAccountByUsername", [username |-> username],
              GetAccount({a \in accounts : a.Username = username}, storeFails))
    /\ UNCHANGED <<lenders, accounts, seqLenders, seqAccounts, writer, now>>

\* Lines 106-126.
GetAccountByID(p, accountID, storeFails) ==
    /\ IsIdle(p)
    /\ Return(p, "GetAccountByID", [accountID |-> accountID],
              GetAccount({a \in accounts : a.Account_ID = accountID}, storeFails))
    /\ UNCHANGED <<lenders, accounts, seqLenders, seqAccounts, writer, now>>

\* Lines 129-140: SELECT Lender_ID FROM Accounts WHERE Account_ID = ?
GetLenderByAccountID_Account(p, accountID, storeFails) ==
    LET rows == {a \in accounts : a.Account_ID = accountID}
        err == QueryRowScan(rows, storeFails)
        args == [accountID |-> accountID]
    IN  /\ IsIdle(p)
        /\ IF err # ErrNil
           THEN Return(p, "GetLenderByAccountID", args,
                       [lender |-> {}, err |-> MapNoRows(err, ErrAccountNotFound)])
           ELSE /\ proc' = [proc EXCEPT ![p] =
                              [pc |-> "lookup", args |-> args,
                               lenderID |-> (CHOOSE a \in rows : TRUE).Lender_ID]]
                /\ last' = NoCall
        /\ UNCHANGED <<lenders, accounts, seqLenders, seqAccounts, writer, now>>

\* Faulty variant of GetLenderByAccountID_Lender: a missing lender is
\* reported as ErrAccountNotFound.
GetLenderByAccountID_LenderSameError(p, storeFails) ==
    LET c == proc[p]
        rows == {l \in lenders : l.Lender_ID = c.lenderID}
        err == QueryRowScan(rows, storeFails)
    IN  /\ c.pc = "lookup"
        /\ IF err # ErrNil
           THEN Return(p, "GetLenderByAccountID", c.args,
                       [lender |-> {}, err |-> MapNoRows(err, ErrAccountNotFound)])
           ELSE Return(p, "GetLenderByAccountID", c.args,
                       [lender |-> {ScanLender(CHOOSE l \in rows : TRUE)},
                        err |-> ErrNil])
        /\ UNCHANGED <<lenders, accounts, seqLenders, seqAccounts, writer, now>>

\* Lines 142-162: SELECT ... FROM Lenders WHERE Lender_ID = ?
GetLenderByAccountID_Lender(p, storeFails) ==
    LET c == proc[p]
        rows == {l \in lenders : l.Lender_ID = c.lenderID}
        err == QueryRowScan(rows, storeFails)
    IN  /\ c.pc = "lookup"
        /\ IF err # ErrNil
           THEN Return(p, "GetLenderByAccountID", c.args,
                       [lender |-> {}, err |-> MapNoRows(err, ErrLenderNotFound)])
           ELSE Return(p, "GetLenderByAccountID", c.args,
                       [lender |-> {ScanLender(CHOOSE l \in rows : TRUE)},
                        err |-> ErrNil])
        /\ UNCHANGED <<lenders, accounts, seqLenders, seqAccounts, writer, now>>

\* --------------------------------------------------------- UpdateLastLogin
\* Faulty variant of UpdateAccounts: SET Last_Login = CURRENT_TIMESTAMP, the
\* clock of the store in whole seconds instead of time.Now().
UpdateAccountsStoreClock(accountID) ==
    {IF a.Account_ID = accountID
     THEN [a EXCEPT !.Last_Login = CURRENT_TIMESTAMP,
                    !.Updated_At = CURRENT_TIMESTAMP]
     ELSE a : a \in accounts}

\* Faulty variant of UpdateAccounts: a schema without the trigger
\* update_accounts_updated_at.
UpdateAccountsNoTrigger(accountID) ==
    {IF a.Account_ID = accountID
     THEN [a EXCEPT !.Last_Login = FormatTimestamp(now)]
     ELSE a : a \in accounts}

\* Faulty variant of UpdateAccounts: the UPDATE without its WHERE clause.
UpdateAccountsAllRows(accountID) ==
    {[a EXCEPT !.Last_Login = FormatTimestamp(now),
               !.Updated_At = CURRENT_TIMESTAMP] : a \in accounts}

\* UPDATE Accounts SET Last_Login = ? WHERE Account_ID = ?, with time.Now()
\* as the first parameter, followed by trigger update_accounts_updated_at,
\* which fires once for every updated row (recursive triggers are off).
UpdateAccounts(accountID) ==
    {IF a.Account_ID = accountID
     THEN [a EXCEPT !.Last_Login = FormatTimestamp(now),
                    !.Updated_At = CURRENT_TIMESTAMP]
     ELSE a : a \in accounts}

\* Faulty variant of UpdateLastLogin: RowsAffected() = 0 is turned into
\* ErrAccountNotFound.
UpdateLastLoginStrict(p, accountID, storeFails, busyTimeout) ==
    /\ IsIdle(p)
    /\ writer # NoWriter => (storeFails \/ busyTimeout)
    /\ busyTimeout => (writer # NoWriter /\ ~storeFails)
    /\ IF storeFails \/ writer # NoWriter THEN
          /\ Return(p, "UpdateLastLogin", [accountID |-> accountID],
                    [err |-> IF storeFails THEN ErrStore ELSE ErrBusy])
          /\ UNCHANGED accounts
       ELSE
          /\ Return(p, "UpdateLastLogin", [accountID |-> accountID],
                    [err |-> IF \E a \in accounts : a.Account_ID = accountID
                             THEN ErrNil ELSE ErrAccountNotFound])
          /\ accounts' = UpdateAccounts(accountID)
    /\ UNCHANGED <<lenders, seqLenders, seqAccounts, writer, now>>

\* Lines 166-175.  The UPDATE is an autocommit write statement: it needs
\* the write lock whether or not a row matches.
UpdateLastLogin(p, accountID, storeFails, busyTimeout) ==
    /\ IsIdle(p)
    /\ writer # NoWriter => (storeFails \/ busyTimeout)
    /\ busyTimeout => (writer # NoWriter /\ ~storeFails)
    /\ IF storeFails \/ writer # NoWriter THEN
          /\ Return(p, "UpdateLastLogin", [accountID |-> accountID],
                    [err |-> IF storeFails THEN ErrStore ELSE ErrBusy])
          /\ UNCHANGED accounts
       ELSE
          /\ Return(p, "UpdateLastLogin", [accountID |-> accountID],
                    [err |-> ErrNil])
          /\ accounts' = UpdateAccounts(accountID)
    /\ UNCHANGED <<lenders, seqLenders, seqAccounts, writer, now>>

\* ------------------------------------------------------------ environment
\* DELETE FROM Lenders WHERE Lender_ID = ?, issued on the store by anything
\* but the repository.  ON DELETE CASCADE removes the accounts of the lender
\* only on a connection that enforces foreign keys.
DeleteLender(lid) ==
    /\ writer = NoWriter
    /\ \E l \in lenders : l.Lender_ID = lid
    /\ lenders' = {l \in lenders : l.Lender_ID # lid}
    /\ accounts' = IF ForeignKeysEnabled
                   THEN {a \in accounts : a.Lender_ID # lid}
                   ELSE accounts
    /\ last' = NoCall
    /\ UNCHANGED <<seqLenders, seqAccounts, writer, now, proc>>

\* ---------------------------------------------------------- specification
\* The positions inside CreateLenderAndAccount.
CreatePcs == {"begun", "lender", "account"}

\* The store under all operations of the repository.  Reads and
\* UpdateLastLogin interleave with the steps of a creating transaction; the
\* history variable created is not kept.  One CreateLenderAndAccount is in
\* flight at a time here; SpecRace has the concurrent ones.
Next ==
    \/ Tick /\ UNCHANGED <<created, callerVars>>
    \/ \E p \in Procs, b \in Profiles, ph \in PhoneNumbers, u \in Usernames,
          h \in PasswordHashes, f \in BOOLEAN :
          /\ \A q \in Procs : proc[q].pc \notin CreatePcs
          /\ CreateLenderAndAccount_Begin(p, b.businessName, b.email, ph, u, h,
                                          b.interestRate, f)
          /\ UNCHANGED <<created, callerVars>>
    \/ \E p \in Procs, f \in BOOLEAN, t \in BOOLEAN :
          CreateLenderAndAccount_InsertLender(p, f, t) /\ UNCHANGED <<created, callerVars>>
    \/ \E p \in Procs, f \in BOOLEAN :
          CreateLenderAndAccount_InsertAccount(p, f) /\ UNCHANGED <<created, callerVars>>
    \/ \E p \in Procs, f \in BOOLEAN :
          CreateLenderAndAccount_Commit(p, f) /\ UNCHANGED <<created, callerVars>>
    \/ \E p \in Procs, u \in Usernames, f \in BOOLEAN :
          GetAccountByUsername(p, u, f) /\ UNCHANGED <<created, callerVars>>
    \/ \E p \in Procs, i \in IDs, f \in BOOLEAN :
          GetAccountByID(p, i, f) /\ UNCHANGED <<created, callerVars>>
    \/ \E p \in Procs, i \in IDs, f \in BOOLEAN :
          GetLenderByAccountID_Account(p, i, f) /\ UNCHANGED <<created, callerVars>>
    \/ \E p \in Procs, f \in BOOLEAN :
          GetLenderByAccountID_Lender(p, f) /\ UNCHANGED <<created, callerVars>>
    \/ \E p \in Procs, i \in IDs, f \in BOOLEAN, t \in BOOLEAN :
          UpdateLastLogin(p, i, f, t) /\ UNCHANGED <<created, callerVars>>
    \/ \E lid \in IDs : DeleteLender(lid) /\ UNCHANGED <<created, callerVars>>

Spec == Init /\ [][Next]_vars

\* History of the race: when p's call returns in this step, its arguments
\* and result are kept in created[p].
Record(p) ==
    /\ created' = IF last' = NoCall THEN created ELSE [created EXCEPT ![p] = last']
    /\ UNCHANGED callerVars

\* The race: every process makes one call of CreateLenderAndAccount, and
\* the steps of the calls interleave in every order.
NextRace ==
    \/ \E p \in Procs, b \in Profiles, ph \in PhoneNumbers, u \in Usernames,
          h \in PasswordHashes, f \in BOOLEAN :
          /\ created[p] = NoCall
          /\ CreateLenderAndAccount_Begin(p, b.businessName, b.email, ph, u, h,
                                          b.interestRate, f)
          /\ Record(p)
    \/ \E p \in Procs, f \in BOOLEAN, t \in BOOLEAN :
          CreateLenderAndAccount_InsertLender(p, f, t) /\ Record(p)
    \/ \E p \in Procs, f \in BOOLEAN :
          CreateLenderAndAccount_InsertAccount(p, f) /\ Record(p)
    \/ \E p \in Procs, f \in BOOLEAN :
          CreateLenderAndAccount_Commit(p, f) /\ Record(p)

SpecRace == Init /\ [][NextRace]_vars

\* ----------------------------------------------------------- token engine
\* The goroutine that calls the token engine.  The engine keeps no state of
\* its own, so one caller shows every behaviour.
TokenProc == "g1"

\* Secret keys, as byte strings: "" and three non-empty ones, two of which
\* differ in a trailing zero byte only.
Secrets == {<<>>, <<1>>, <<1, 0>>, <<2>>}
\* secretKey == ""
EmptySecret == <<>>

\* Identities embedded in tokens.
Identities == {id \in IDs \X IDs : id[1] # id[2]}
UserIDs == IDs

\* Durations of the two token kinds and the validator's leeway, in ticks.
AccessTokenDuration == 15 * 60 * TicksPerSec
RefreshTokenDuration == 7 * 24 * 60 * 60 * TicksPerSec
Leeway == 5 * TicksPerSec

\* Errors of the token engine.
ErrEmptySecret == "secret key cannot be empty"
ErrTokenMalformed == "token is malformed"
ErrTokenUnverifiable == "token is unverifiable"
ErrTokenSignatureInvalid == "token signature is invalid"
ErrTokenExpired == "token is expired"
ErrTokenExpiredUserID == "token expired"
ErrInvalidSignatureUserID == "invalid token signature"

\* jwt.NewNumericDate truncates the instant to jwt.TimePrecision, one
\* second; the claim is encoded as a number of seconds.
NewNumericDate(t) == t \div TicksPerSec
\* The instant a decoded NumericDate stands for.
NumericDateTime(d) == d * TicksPerSec

\* The claims as they are encoded in the payload: a JSON object.
ClaimsSwapped(accountID, lenderID, expiresAt, issuedAt) ==
    [AccountID |-> lenderID, LenderID |-> accountID,
     exp |-> expiresAt, iat |-> issuedAt]
Claims(accountID, lenderID, expiresAt, issuedAt) ==
    [AccountID |-> accountID, LenderID |-> lenderID,
     exp |-> expiresAt, iat |-> issuedAt]
ClaimsUserID(userID, expiresAt, issuedAt) ==
    [user_id |-> userID, exp |-> expiresAt, iat |-> issuedAt]

\* Decoding of a payload into the Claims struct of a variant: a field the
\* payload lacks keeps its zero value, a field the struct lacks is dropped.
Field(payload, name) == IF name \in DOMAIN payload THEN payload[name] ELSE 0
UnmarshalClaims(payload) ==
    [AccountID |-> Field(payload, "AccountID"),
     LenderID |-> Field(payload, "LenderID"),
     ExpiresAt |-> Field(payload, "exp"), IssuedAt |-> Field(payload, "iat")]
UnmarshalClaimsUserID(payload) ==
    [UserID |-> Field(payload, "user_id"),
     ExpiresAt |-> Field(payload, "exp"), IssuedAt |-> Field(payload, "iat")]

\* crypto/hmac pads a key shorter than the hash's block with zero bytes, so
\* two keys that differ in trailing zero bytes are the same key.  (The
\* secrets of the model are shorter than a block.)
RECURSIVE HMACKey(_)
HMACKey(key) ==
    IF key # <<>> /\ key[Len(key)] = 0
    THEN HMACKey(SubSeq(key, 1, Len(key) - 1))
    ELSE key

\* The MAC of a signing string: determined by the algorithm, the key as
\* HMAC uses it and the string; different inputs give different MACs.
Sign(alg, signingString, key) ==
    [alg |-> alg, key |-> HMACKey(key), msg |-> signingString]

\* Signing methods: the HMAC family, and others a header may declare.
SigningMethodHMAC == {"HS256", "HS384", "HS512"}
OtherSigningMethods == {"none", "RS256"}

\* A token string: header, payload and signature; token.SignedString with
\* jwt.SigningMethodHS256 and a []byte key cannot fail, whatever the key.
Header(alg) == [alg |-> alg, typ |-> "JWT"]
SigningString(header, payload) == <<header, payload>>
SignedString(claims, secretKey) ==
    [header |-> Header("HS256"), payload |-> claims,
     signature |-> Sign("HS256", SigningString(Header("HS256"), claims), secretKey)]
\* A string that is not three base64url segments of JSON.
MalformedToken == [raw |-> "malformed.token.string"]
\* The empty string returned with an error.
NoToken == [raw |-> ""]
WellFormed(tokenString) == DOMAIN tokenString = {"header", "payload", "signature"}

\* The keyfunc ValidateToken hands to the parser.
Keyfunc(header, secretKey) ==
    IF header.alg \in SigningMethodHMAC
    THEN [key |-> secretKey, err |-> ErrNil]
    ELSE [key |-> <<>>, err |-> "unexpected signing method"]

\* The validator's expiry check: now.Before(exp.Add(leeway)).
VerifyExpiresAtInclusive(exp, at, leeway) == at <= NumericDateTime(exp) + leeway
VerifyExpiresAt(exp, at, leeway) == at < NumericDateTime(exp) + leeway

\* jwt.ParseWithClaims with a keyfunc, at wall clock at: structure, key
\* lookup, signature, then the registered claims.
ParseWithClaimsClaimsFirst(tokenString, secretKey, leeway, at) ==
    IF ~WellFormed(tokenString)
    THEN [valid |-> FALSE, err |-> ErrTokenMalformed]
    ELSE IF Keyfunc(tokenString.header, secretKey).err # ErrNil
    THEN [valid |-> FALSE, err |-> ErrTokenUnverifiable]
    ELSE IF ~VerifyExpiresAt(Field(tokenString.payload, "exp"), at, leeway)
    THEN [valid |-> FALSE, err |-> ErrTokenExpired]
    ELSE IF tokenString.signature #
              Sign(tokenString.header.alg,
                   SigningString(tokenString.header, tokenString.payload),
                   Keyfunc(tokenString.header, secretKey).key)
    THEN [valid |-> FALSE, err |-> ErrTokenSignatureInvalid]
    ELSE [valid |-> TRUE, err |-> ErrNil]
ParseWithClaims(tokenString, secretKey, leeway, at) ==
    IF ~WellFormed(tokenString)
    THEN [valid |-> FALSE, err |-> ErrTokenMalformed]
    ELSE IF Keyfunc(tokenString.header, secretKey).err # ErrNil
    THEN [valid |-> FALSE, err |-> ErrTokenUnverifiable]
    ELSE IF tokenString.signature #
              Sign(tokenString.header.alg,
                   SigningString(tokenString.header, tokenString.payload),
                   Keyfunc(tokenString.header, secretKey).key)
    THEN [valid |-> FALSE, err |-> ErrTokenSignatureInvalid]
    ELSE IF ~VerifyExpiresAt(Field(tokenString.payload, "exp"), at, leeway)
    THEN [valid |-> FALSE, err |-> ErrTokenExpired]
    ELSE [valid |-> TRUE, err |-> ErrNil]

\* ValidateToken of jwt.go: no check of the secret, no leeway, the parser's
\* error returned as it is.  A nil *Claims is {}, a pointer a singleton.
ValidateTokenResult(tokenString, secretKey, at) ==
    LET r == ParseWithClaims(tokenString, secretKey, 0, at)
    IN  IF r.err # ErrNil
        THEN [claims |-> {}, err |-> r.err]
        ELSE [claims |-> {UnmarshalClaims(tokenString.payload)}, err |-> ErrNil]

\* ValidateToken of the user-id variant: the secret is checked first, the
\* parser gets a leeway, and two of its errors are replaced by new ones.
ValidateTokenUserIDResult(tokenString, secretKey, at) ==
    IF secretKey = EmptySecret
    THEN [claims |-> {}, err |-> ErrEmptySecret]
    ELSE LET r == ParseWithClaims(tokenString, secretKey, Leeway, at)
         IN  IF r.err = ErrTokenExpired
             THEN [claims |-> {}, err |-> ErrTokenExpiredUserID]
             ELSE IF r.err = ErrTokenSignatureInvalid
             THEN [claims |-> {}, err |-> ErrInvalidSignatureUserID]
             ELSE IF r.err # ErrNil
             THEN [claims |-> {}, err |-> r.err]
             ELSE [claims |-> {UnmarshalClaimsUserID(tokenString.payload)},
                   err |-> ErrNil]

\* The variables of the credential store, which the token engine leaves alone.
storeVars == <<lenders, accounts, seqLenders, seqAccounts, writer, created>>

\* The duration a generator adds to its first reading of the clock.
Duration(fn) ==
    IF fn = "GenerateAccessToken" THEN AccessTokenDuration ELSE RefreshTokenDuration

\* First half of a generator: the claims' ExpiresAt is computed from
\* time.Now(); IssuedAt is a second reading, taken in a later step.
\* caller is "GenerateTokenPair" when the generator runs inside it.
ReadExpiresAt(p, fn, caller, variant, identity, secretKey, access) ==
    /\ proc' = [proc EXCEPT ![p] =
                   [pc |-> "issuedAt", fn |-> fn, caller |-> caller,
                    variant |-> variant, identity |-> identity,
                    secretKey |-> secretKey,
                    expiresAt |-> NewNumericDate(now + Duration(fn)),
                    access |-> access]]
    /\ last' = NoCall
    /\ UNCHANGED <<now, held, storeVars>>

\* New calls start while the clock is within its first MaxTime ticks.
\* GenerateAccessToken(accountID, lenderID, secretKey) of jwt.go.
GenerateAccessToken(p, accountID, lenderID, secretKey) ==
    /\ IsIdle(p)
    /\ now <= MaxTime
    /\ ReadExpiresAt(p, "GenerateAccessToken", "none", "pair",
                     <<accountID, lenderID>>, secretKey, NoToken)

\* GenerateRefreshToken(accountID, lenderID, secretKey) of jwt.go.
GenerateRefreshToken(p, accountID, lenderID, secretKey) ==
    /\ IsIdle(p)
    /\ now <= MaxTime
    /\ ReadExpiresAt(p, "GenerateRefreshToken", "none", "pair",
                     <<accountID, lenderID>>, secretKey, NoToken)

\* GenerateTokenPair(accountID, lenderID, secretKey) of jwt.go: it begins
\* with the call of GenerateAccessToken.
GenerateTokenPair(p, accountID, lenderID, secretKey) ==
    /\ IsIdle(p)
    /\ now <= MaxTime
    /\ ReadExpiresAt(p, "GenerateAccessToken", "GenerateTokenPair", "pair",
                     <<accountID, lenderID>>, secretKey, NoToken)

\* Second half of a generator of jwt.go: IssuedAt from a second time.Now(),
\* then the signature.  A lone generator returns the token; inside
\* GenerateTokenPair the access token is kept and the refresh token ends
\* the call.  The client keeps one of the tokens it was given.
GenerateToken_Sign(p) ==
    /\ proc[p].pc = "issuedAt"
    /\ proc[p].variant = "pair"
    /\ LET f == proc[p]
           t == SignedString(Claims(f.identity[1], f.identity[2], f.expiresAt,
                                    NewNumericDate(now)), f.secretKey)
           args == [identity |-> f.identity, secretKey |-> f.secretKey]
       IN  IF f.caller = "none"
           THEN /\ Return(p, f.fn, args, [token |-> t, err |-> ErrNil])
                /\ held' = t
           ELSE IF f.fn = "GenerateAccessToken"
           THEN /\ proc' = [proc EXCEPT ![p] = [f EXCEPT !.pc = "refresh", !.access = t]]
                /\ last' = NoCall
                /\ UNCHANGED held
           ELSE /\ Return(p, "GenerateTokenPair", args,
                          [pair |-> {[AccessToken |-> f.access, RefreshToken |-> t]},
                           err |-> ErrNil])
                /\ held' \in {f.access, t}
    /\ UNCHANGED <<now, storeVars>>

\* GenerateTokenPair of jwt.go, after the access token: the call of
\* GenerateRefreshToken.
GenerateTokenPair_Refresh(p) ==
    /\ proc[p].pc = "refresh"
    /\ proc[p].variant = "pair"
    /\ ReadExpiresAt(p, "GenerateRefreshToken", "GenerateTokenPair", "pair",
                     proc[p].identity, proc[p].secretKey, proc[p].access)

\* The generators of the user-id variant check the secret before anything
\* else.
GenerateAccessTokenUserID(p, userID, secretKey) ==
    /\ IsIdle(p)
    /\ now <= MaxTime
    /\ IF secretKey = EmptySecret
       THEN /\ Return(p, "GenerateAccessTokenUserID",
                      [identity |-> userID, secretKey |-> secretKey],
                      [token |-> NoToken, err |-> ErrEmptySecret])
            /\ UNCHANGED <<now, held, storeVars>>
       ELSE ReadExpiresAt(p, "GenerateAccessToken", "none", "UserID",
                          userID, secretKey, NoToken)

GenerateRefreshTokenUserID(p, userID, secretKey) ==
    /\ IsIdle(p)
    /\ now <= MaxTime
    /\ IF secretKey = EmptySecret
       THEN /\ Return(p, "GenerateRefreshTokenUserID",
                      [identity |-> userID, secretKey |-> secretKey],
                      [token |-> NoToken, err |-> ErrEmptySecret])
            /\ UNCHANGED <<now, held, storeVars>>
       ELSE ReadExpiresAt(p, "GenerateRefreshToken", "none", "UserID",
                          userID, secretKey, NoToken)

\* Faulty variant of GenerateTokenPair of the user-id variant: on the error
\* of GenerateAccessToken it returns a pair without tokens beside the error.
GenerateTokenPairUserIDHalfPair(p, userID, secretKey) ==
    /\ IsIdle(p)
    /\ now <= MaxTime
    /\ IF secretKey = EmptySecret
       THEN /\ Return(p, "GenerateTokenPairUserID",
                      [identity |-> userID, secretKey |-> secretKey],
                      [pair |-> {[AccessToken |-> NoToken, RefreshToken |-> NoToken]},
                       err |-> ErrEmptySecret])
            /\ UNCHANGED <<now, held, storeVars>>
       ELSE ReadExpiresAt(p, "GenerateAccessToken", "GenerateTokenPair", "UserID",
                          userID, secretKey, NoToken)

\* GenerateTokenPair of the user-id variant: the error of
\* GenerateAccessToken is passed on with a nil pair.
GenerateTokenPairUserID(p, userID, secretKey) ==
    /\ IsIdle(p)
    /\ now <= MaxTime
    /\ IF secretKey = EmptySecret
       THEN /\ Return(p, "GenerateTokenPairUserID",
                      [identity |-> userID, secretKey |-> secretKey],
                      [pair |-> {}, err |-> ErrEmptySecret])
            /\ UNCHANGED <<now, held, storeVars>>
       ELSE ReadExpiresAt(p, "GenerateAccessToken", "GenerateTokenPair", "UserID",
                          userID, secretKey, NoToken)

\* Second half of a generator of the user-id variant.
GenerateTokenUserID_Sign(p) ==
    /\ proc[p].pc = "issuedAt"
    /\ proc[p].variant = "UserID"
    /\ LET f == proc[p]
           t == SignedString(ClaimsUserID(f.identity, f.expiresAt,
                                          NewNumericDate(now)), f.secretKey)
           args == [identity |-> f.identity, secretKey |-> f.secretKey]
       IN  IF f.caller = "none"
           THEN /\ Return(p, IF f.fn = "GenerateAccessToken"
                             THEN "GenerateAccessTokenUserID"
                             ELSE "GenerateRefreshTokenUserID",
                          args, [token |-> t, err |-> ErrNil])
                /\ held' = t
           ELSE IF f.fn = "GenerateAccessToken"
           THEN /\ proc' = [proc EXCEPT ![p] = [f EXCEPT !.pc = "refresh", !.access = t]]
                /\ last' = NoCall
                /\ UNCHANGED held
           ELSE /\ Return(p, "GenerateTokenPairUserID", args,
                          [pair |-> {[AccessToken |-> f.access, RefreshToken |-> t]},
                           err |-> ErrNil])
                /\ held' \in {f.access, t}
    /\ UNCHANGED <<now, storeVars>>

\* GenerateTokenPair of the user-id variant, after the access token: the
\* call of GenerateRefreshToken, which checks the secret again.
GenerateTokenPairUserID_Refresh(p) ==
    /\ proc[p].pc = "refresh"
    /\ proc[p].variant = "UserID"
    /\ IF proc[p].secretKey = EmptySecret
       THEN /\ Return(p, "GenerateTokenPairUserID",
                      [identity |-> proc[p].identity, secretKey |-> proc[p].secretKey],
                      [pair |-> {}, err |-> ErrEmptySecret])
            /\ UNCHANGED <<now, held, storeVars>>
       ELSE ReadExpiresAt(p, "GenerateRefreshToken", "GenerateTokenPair", "UserID",
                          proc[p].identity, proc[p].secretKey, proc[p].access)

\* Faulty variant of ValidateToken: a token is revoked when the account its
\* claims name is locked.
ValidateTokenRevoking(p, secretKey) ==
    /\ IsIdle(p)
    /\ LET r == ValidateTokenResult(held, secretKey, now)
       IN  Return(p, "ValidateToken",
                  [tokenString |-> held, secretKey |-> secretKey, now |-> now],
                  IF /\ r.err = ErrNil
                     /\ \E c \in r.claims, a \in accounts :
                           a.Account_ID = c.AccountID /\ a.Is_Locked = 1
                  THEN [claims |-> {}, err |-> "account is locked"]
                  ELSE r)
    /\ UNCHANGED <<now, held, storeVars>>

\* ValidateToken(tokenString, secretKey) of jwt.go on the token the client
\* presents; the validator reads the clock once.
ValidateToken(p, secretKey) ==
    /\ IsIdle(p)
    /\ Return(p, "ValidateToken",
              [tokenString |-> held, secretKey |-> secretKey, now |-> now],
              ValidateTokenResult(held, secretKey, now))
    /\ UNCHANGED <<now, held, storeVars>>

\* ValidateToken(tokenString, secretKey) of the user-id variant.
ValidateTokenUserID(p, secretKey) ==
    /\ IsIdle(p)
    /\ Return(p, "ValidateTokenUserID",
              [tokenString |-> held, secretKey |-> secretKey, now |-> now],
              ValidateTokenUserIDResult(held, secretKey, now))
    /\ UNCHANGED <<now, held, storeVars>>

\* What an Extract function makes of the result of ValidateToken: 0 and the
\* error when it failed, the named field of the claims otherwise.
ExtractField(v, name) ==
    IF v.err # ErrNil
    THEN [id |-> 0, err |-> v.err]
    ELSE [id |-> (CHOOSE c \in v.claims : TRUE)[name], err |-> ErrNil]

\* ExtractAccountID(tokenString, secretKey) of jwt.go.
ExtractAccountID(p, secretKey) ==
    /\ IsIdle(p)
    /\ Return(p, "ExtractAccountID",
              [tokenString |-> held, secretKey |-> secretKey, now |-> now],
              ExtractField(ValidateTokenResult(held, secretKey, now), "AccountID"))
    /\ UNCHANGED <<now, held, storeVars>>

\* Faulty variant of ExtractLenderID: it returns the claims' AccountID.
ExtractLenderIDAccount(p, secretKey) ==
    /\ IsIdle(p)
    /\ Return(p, "ExtractLenderID",
              [tokenString |-> held, secretKey |-> secretKey, now |-> now],
              ExtractField(ValidateTokenResult(held, secretKey, now), "AccountID"))
    /\ UNCHANGED <<now, held, storeVars>>

\* ExtractLenderID(tokenString, secretKey) of jwt.go.
ExtractLenderID(p, secretKey) ==
    /\ IsIdle(p)
    /\ Return(p, "ExtractLenderID",
              [tokenString |-> held, secretKey |-> secretKey, now |-> now],
              ExtractField(ValidateTokenResult(held, secretKey, now), "LenderID"))
    /\ UNCHANGED <<now, held, storeVars>>

\* ExtractUserID(tokenString, secretKey) of the user-id variant.
ExtractUserID(p, secretKey) ==
    /\ IsIdle(p)
    /\ Return(p, "ExtractUserID",
              [tokenString |-> held, secretKey |-> secretKey, now |-> now],
              ExtractField(ValidateTokenUserIDResult(held, secretKey, now), "UserID"))
    /\ UNCHANGED <<now, held, storeVars>>

\* The names under which the calls of the engine are recorded in last.
GenerateOps ==
    {"GenerateAccessToken", "GenerateRefreshToken",
     "GenerateAccessTokenUserID", "GenerateRefreshTokenUserID"}
PairOps == {"GenerateTokenPair", "GenerateTokenPairUserID"}
ValidateOps == {"ValidateToken", "ValidateTokenUserID"}
ExtractOps == {"ExtractAccountID", "ExtractLenderID", "ExtractUserID"}

\* The instants the wall clock shows: the first second, and the instants
\* around the end of each token kind's lifetime and of its leeway.
Instants ==
    (0..TicksPerSec) \cup
    {d + o : d \in {AccessTokenDuration, RefreshTokenDuration},
             o \in {-1, 0, 1, Leeway - 1, Leeway, Leeway + 1}}

\* The wall clock moves on to instant t.  A call in progress ends within
\* the first second.  The caller of a generator keeps what it returned.
Elapse(t) ==
    /\ t > now
    /\ (\E p \in Procs : ~IsIdle(p)) => t <= TicksPerSec
    /\ now' = t
    /\ last' = IF last.op \in GenerateOps \cup PairOps THEN last ELSE NoCall
    /\ UNCHANGED <<proc, held, storeVars>>

\* A token whose signature was made for its header and payload.
Intact(tokenString) ==
    /\ WellFormed(tokenString)
    /\ tokenString.signature.msg = SigningString(tokenString.header, tokenString.payload)

\* What a client without the secret can make of the token it holds: a
\* string that is no token, the token under another declared algorithm, and
\* the token with a later expiry.
Forgeries(tokenString) ==
    {MalformedToken} \cup
    IF Intact(tokenString)
    THEN {[tokenString EXCEPT !.header = Header(a)] :
             a \in OtherSigningMethods \cup {"HS384"}}
         \cup {[tokenString EXCEPT !.payload.exp = @ + 1]}
    ELSE {}

\* The client replaces the token it holds by t.
Present(t) ==
    /\ \A p \in Procs : IsIdle(p)
    /\ t # held
    /\ held' = t
    /\ last' = NoCall
    /\ UNCHANGED <<now, proc, storeVars>>

\* A build holds one variant of package auth, so a validator is never
\* handed a token minted by the other variant's generators.
MintedBy(tokenString, variant) ==
    WellFormed(tokenString) =>
        (("user_id" \in DOMAIN tokenString.payload) <=> (variant = "UserID"))

\* The token engine: tokens are minted, time passes, tokens are tampered
\* with and validated, in both variants.
NextToken ==
    \/ \E id \in Identities, s \in Secrets :
          /\ GenerateAccessToken(TokenProc, id[1], id[2], s)
          /\ UNCHANGED <<hashes, verdicts>>
    \/ \E id \in Identities, s \in Secrets :
          /\ GenerateRefreshToken(TokenProc, id[1], id[2], s)
          /\ UNCHANGED <<hashes, verdicts>>
    \/ \E id \in Identities, s \in Secrets :
          /\ GenerateTokenPair(TokenProc, id[1], id[2], s)
          /\ UNCHANGED <<hashes, verdicts>>
    \/ GenerateToken_Sign(TokenProc) /\ UNCHANGED <<hashes, verdicts>>
    \/ GenerateTokenPair_Refresh(TokenProc) /\ UNCHANGED <<hashes, verdicts>>
    \/ \E u \in UserIDs, s \in Secrets :
          GenerateAccessTokenUserID(TokenProc, u, s) /\ UNCHANGED <<hashes, verdicts>>
    \/ \E u \in UserIDs, s \in Secrets :
          GenerateRefreshTokenUserID(TokenProc, u, s) /\ UNCHANGED <<hashes, verdicts>>
    \/ \E u \in UserIDs, s \in Secrets :
          GenerateTokenPairUserID(TokenProc, u, s) /\ UNCHANGED <<hashes, verdicts>>
    \/ GenerateTokenUserID_Sign(TokenProc) /\ UNCHANGED <<hashes, verdicts>>
    \/ GenerateTokenPairUserID_Refresh(TokenProc) /\ UNCHANGED <<hashes, verdicts>>
    \/ \E s \in Secrets :
          /\ MintedBy(held, "pair") /\ ValidateToken(TokenProc, s)
          /\ UNCHANGED <<hashes, verdicts>>
    \/ \E s \in Secrets :
          /\ MintedBy(held, "UserID") /\ ValidateTokenUserID(TokenProc, s)
          /\ UNCHANGED <<hashes, verdicts>>
    \/ \E s \in Secrets :
          /\ MintedBy(held, "pair") /\ ExtractAccountID(TokenProc, s)
          /\ UNCHANGED <<hashes, verdicts>>
    \/ \E s \in Secrets :
          /\ MintedBy(held, "pair") /\ ExtractLenderID(TokenProc, s)
          /\ UNCHANGED <<hashes, verdicts>>
    \/ \E s \in Secrets :
          /\ MintedBy(held, "UserID") /\ ExtractUserID(TokenProc, s)
          /\ UNCHANGED <<hashes, verdicts>>
    \/ \E t \in Instants :
          Elapse(t) /\ UNCHANGED <<hashes, verdicts>>
    \/ \E t \in Forgeries(held) :
          Present(t) /\ UNCHANGED <<hashes, verdicts>>

SpecToken == Init /\ [][NextToken]_vars

\* ------------------------------------------------------------------ session
\* The token engine beside the credential store: while a client holds a
\* token, the store is written by another goroutine.
StoreProc == "g2"

\* UPDATE Accounts SET Is_Locked = ? WHERE Account_ID = ?, issued on the
\* store by the lock and unlock operations, which the repository does not
\* hold.  The trigger update_accounts_updated_at fires.
SetLocked(accountID, locked) ==
    /\ writer = NoWriter
    /\ \E a \in accounts : a.Account_ID = accountID /\ a.Is_Locked # locked
    /\ accounts' = {IF a.Account_ID = accountID
                    THEN [a EXCEPT !.Is_Locked = locked,
                                   !.Updated_At = CURRENT_TIMESTAMP]
                    ELSE a : a \in accounts}
    /\ last' = NoCall
    /\ UNCHANGED <<lenders, seqLenders, seqAccounts, writer, now, proc>>

\* History of the session: the result of a validation is kept beside the
\* secret it was made with.
Remember ==
    /\ verdicts' = verdicts \cup
          {[op |-> last'.op, secretKey |-> last'.args.secretKey, ret |-> last'.ret]}
    /\ UNCHANGED hashes

\* The history is about the token the client holds: it starts again with a
\* new token.
Keep ==
    /\ verdicts' = IF held' = held THEN verdicts ELSE {}
    /\ UNCHANGED hashes

\* The lender the session creates.
SessionProfile == CHOOSE b \in Profiles : LenderCheck(b.interestRate)
SessionUsername == CHOOSE u \in Usernames : TRUE

\* The secrets of the session: the one tokens are minted under, and others.
SessionSecrets == {s \in Secrets : s # EmptySecret /\ HMACKey(s) = s}

\* A session: tokens are minted for the client and validated again and
\* again while time passes and the store is written.  The writes start
\* within the first second and the instant that ends it.
NextSession ==
    \/ \E id \in Identities, s \in SessionSecrets :
          GenerateAccessToken(TokenProc, id[1], id[2], s) /\ Keep
    \/ GenerateToken_Sign(TokenProc) /\ Keep
    \/ \E u \in UserIDs, s \in SessionSecrets :
          GenerateRefreshTokenUserID(TokenProc, u, s) /\ Keep
    \/ GenerateTokenUserID_Sign(TokenProc) /\ Keep
    \/ \E s \in SessionSecrets :
          /\ WellFormed(held) /\ MintedBy(held, "pair")
          /\ ValidateToken(TokenProc, s)
          /\ Remember
    \/ \E s \in SessionSecrets :
          /\ WellFormed(held) /\ MintedBy(held, "UserID")
          /\ ValidateTokenUserID(TokenProc, s)
          /\ Remember
    \/ \E t \in Instants : Elapse(t) /\ Keep
    \/ \E ph \in PhoneNumbers, h \in PasswordHashes :
          /\ now <= TicksPerSec
          /\ CreateLenderAndAccount_Begin(StoreProc, SessionProfile.businessName,
                                          SessionProfile.email, ph, SessionUsername,
                                          h, SessionProfile.interestRate, FALSE)
          /\ UNCHANGED <<created, held>>
          /\ Keep
    \/ CreateLenderAndAccount_InsertLender(StoreProc, FALSE, FALSE)
          /\ UNCHANGED <<created, held>> /\ Keep
    \/ CreateLenderAndAccount_InsertAccount(StoreProc, FALSE)
          /\ UNCHANGED <<created, held>> /\ Keep
    \/ CreateLenderAndAccount_Commit(StoreProc, FALSE)
          /\ UNCHANGED <<created, held>> /\ Keep
    \/ \E i \in IDs :
          /\ now <= TicksPerSec
          /\ UpdateLastLogin(StoreProc, i, FALSE, FALSE)
          /\ UNCHANGED <<created, held>>
          /\ Keep
    \/ \E i \in IDs, locked \in {0, 1} :
          /\ now <= TicksPerSec
          /\ SetLocked(i, locked)
          /\ UNCHANGED <<created, held>>
          /\ Keep

SpecSession == Init /\ [][NextSession]_vars

\* -------------------------------------------------------- password policy
\* Package utils: HashPassword, CheckPassword and ValidatePassword.  A
\* password is a sequence of characters.  "A" stands for the letters A-Z,
\* "a" and "b" for lower-case letters, "1" for the digits 0-9, "Eacute"
\* for an upper-case letter outside ASCII and "NUL" for the zero byte.
PasswordChars == {"A", "a", "1", "Eacute"}
ASCIIUpper == {"A"}
ASCIIDigit == {"1"}
NUL == "NUL"

\* The goroutine that calls the password policy, which keeps no state.
PolicyProc == "g1"

\* The bytes of a character in a Go string: one except outside ASCII.
UTF8(c) == IF c = "Eacute" THEN <<"xC3", "x89">> ELSE <<c>>

\* []byte(password), and with it len(password).
RECURSIVE Bytes(_)
Bytes(password) ==
    IF password = <<>> THEN <<>>
    ELSE UTF8(Head(password)) \o Bytes(Tail(password))

\* regexp.MustCompile(`[...]`).MatchString(password) for a class of ASCII
\* characters: a character of the class stands somewhere in the string.
MatchString(class, password) ==
    \E i \in 1..Len(password) : password[i] \in class

MinPasswordLength == 8
ErrPasswordShort == "password must be at least 8 characters long"
ErrPasswordNoUpper == "password must contain at least one uppercase letter"
ErrPasswordNoNumber == "password must contain at least one number"

\* Faulty variant of ValidatePassword: the uppercase rule is checked before
\* the length.
ValidatePasswordResultUpperFirst(password) ==
    IF ~MatchString(ASCIIUpper, password) THEN ErrPasswordNoUpper
    ELSE IF Len(Bytes(password)) < MinPasswordLength THEN ErrPasswordShort
    ELSE IF ~MatchString(ASCIIDigit, password) THEN ErrPasswordNoNumber
    ELSE ErrNil

\* ValidatePassword(password): the error it returns.
ValidatePasswordResult(password) ==
    IF Len(Bytes(password)) < MinPasswordLength THEN ErrPasswordShort
    ELSE IF ~MatchString(ASCIIUpper, password) THEN ErrPasswordNoUpper
    ELSE IF ~MatchString(ASCIIDigit, password) THEN ErrPasswordNoNumber
    ELSE ErrNil

\* The variables the password policy leaves alone.
policyFrame == <<now, held, verdicts, storeVars>>

\* The call ValidatePassword(password) that p has begun returns.
ValidatePassword(p) ==
    /\ proc[p].pc = "ValidatePassword"
    /\ Return(p, "ValidatePassword", [password |-> proc[p].password],
              [err |-> ValidatePasswordResult(proc[p].password)])
    /\ UNCHANGED <<hashes, policyFrame>>

\* The passwords handed to ValidatePassword: every string of at most
\* MaxLen characters.
MaxLen == 8
StrengthPasswords == UNION {[1..n -> PasswordChars] : n \in 0..MaxLen}

\* ValidatePassword is a function of its argument alone: a behaviour is one
\* call, begun with any of the passwords.
InitStrength ==
    /\ lenders = {}
    /\ accounts = {}
    /\ seqLenders = 0
    /\ seqAccounts = 0
    /\ writer = NoWriter
    /\ now = 0
    /\ \E password \in StrengthPasswords :
          proc = [p \in Procs |->
                    IF p = PolicyProc
                    THEN [pc |-> "ValidatePassword", password |-> password]
                    ELSE Idle]
    /\ last = NoCall
    /\ created = [p \in Procs |-> NoCall]
    /\ held = [raw |-> ""]
    /\ hashes = {}
    /\ verdicts = {}

NextStrength == ValidatePassword(PolicyProc)

SpecStrength == InitStrength /\ [][NextStrength]_vars

\* bcrypt (golang.org/x/crypto/bcrypt), as HashPassword and CheckPassword
\* use it.
DefaultCost == 10
\* The bytes of the key that the Blowfish key schedule reads: 18 words of
\* the P-array, 4 bytes each.
KeyBytes == 72
\* The length of an encoded hash, and the least length newFromHash accepts.
EncodedSize == 60
MinHashSize == 59

ErrMismatchedHashAndPassword ==
    "crypto/bcrypt: hashedPassword is not the hash of the given password"
ErrHashTooShort ==
    "crypto/bcrypt: hashedSecret too short to be a bcrypted password"
ErrInvalidHashPrefix ==
    "crypto/bcrypt: bcrypt hashes must start with '$'"
ErrPasswordTooLong == "bcrypt: password length exceeds 72 bytes"

\* A string of n characters c.
Fill(c, n) == [i \in 1..n |-> c]

\* The key schedule reads the password with a zero byte appended, going
\* round it again when the end is reached, until KeyBytes bytes are read.
BlowfishKey(password) ==
    LET ckey == Bytes(password) \o <<NUL>>
    IN  [i \in 1..KeyBytes |-> ckey[((i - 1) % Len(ckey)) + 1]]

\* bcrypt(password, cost, salt): the digest, taken as a one-way function
\* without collisions of the cost, the salt and the key read.
Bcrypt(password, cost, salt) ==
    [cost |-> cost, salt |-> salt, key |-> BlowfishKey(password)]

\* A hash string is either text that is no encoded hash, [text |-> ...], or
\* the encoding "$2a$cost$salt+digest" of a hash.
NoHash == [text |-> <<>>]
MalformedHashes ==
    {NoHash, [text |-> <<"i", "n", "v", "a", "l", "i", "d", "h", "a", "s", "h">>],
     [text |-> Fill("x", EncodedSize)]}
IsEncodedHash(hashedPassword) == "hash" \in DOMAIN hashedPassword
HashLen(hashedPassword) ==
    IF IsEncodedHash(hashedPassword) THEN EncodedSize ELSE Len(hashedPassword.text)

\* bcrypt.GenerateFromPassword(password, cost) with the salt read from the
\* entropy source.  The repository pins no release of the library: the
\* releases since v0.5.0 refuse a password of more than 72 bytes
\* (refusesLong), the earlier ones hash it like any other.
GenerateFromPassword(password, cost, salt, refusesLong) ==
    IF refusesLong /\ Len(Bytes(password)) > KeyBytes
    THEN [hash |-> NoHash, err |-> ErrPasswordTooLong]
    ELSE [hash |-> [major |-> "2", minor |-> "a", cost |-> cost, salt |-> salt,
                    hash |-> Bcrypt(password, cost, salt)],
          err |-> ErrNil]

\* newFromHash of bcrypt: the error with which a hash string is refused.
NewFromHashError(hashedPassword) ==
    IF HashLen(hashedPassword) < MinHashSize THEN ErrHashTooShort
    ELSE IF ~IsEncodedHash(hashedPassword) THEN ErrInvalidHashPrefix
    ELSE ErrNil

\* bcrypt.CompareHashAndPassword(hashedPassword, password): the hash string
\* is parsed, the password hashed with its cost and salt, and the digests
\* compared.  No length of the password is refused.
CompareHashAndPassword(hashedPassword, password) ==
    IF NewFromHashError(hashedPassword) # ErrNil
    THEN NewFromHashError(hashedPassword)
    ELSE IF Bcrypt(password, hashedPassword.cost, hashedPassword.salt) =
            hashedPassword.hash
    THEN ErrNil
    ELSE ErrMismatchedHashAndPassword

\* The number of hashes kept, and the salts the entropy source gives.
MaxHashes == 2
Salts == 1..MaxHashes

\* The passwords hashed and checked: the empty one, short ones, one with a
\* zero byte, one that passes ValidatePassword, and ones around 72 bytes.
Passwords ==
    {<<>>, <<"a">>, <<"b">>, <<"a", NUL, "a">>,
     <<"A", "a", "a", "a", "a", "a", "a", "1">>,
     Fill("a", KeyBytes), Fill("a", KeyBytes) \o <<"b">>}

\* HashPassword(password): the 16 bytes of salt are read from crypto/rand,
\* which does not give the same salt twice.  The caller keeps the hash.
HashPassword(p, password, salt, refusesLong) ==
    /\ IsIdle(p)
    /\ Cardinality(hashes) < MaxHashes
    /\ \A x \in hashes : x.hash.salt # salt
    /\ LET r == GenerateFromPassword(password, DefaultCost, salt, refusesLong)
       IN  /\ Return(p, "HashPassword", [password |-> password],
                     [hash |-> IF r.err # ErrNil THEN NoHash ELSE r.hash,
                      err |-> r.err])
           /\ hashes' = IF r.err # ErrNil THEN hashes
                        ELSE hashes \cup {[password |-> password, hash |-> r.hash]}
    /\ UNCHANGED policyFrame

\* CheckPassword(hashedPassword, password).
CheckPassword(p, hashedPassword, password) ==
    /\ IsIdle(p)
    /\ Return(p, "CheckPassword",
              [hashedPassword |-> hashedPassword, password |-> password],
              [err |-> CompareHashAndPassword(hashedPassword, password)])
    /\ UNCHANGED <<hashes, policyFrame>>

\* The password policy: passwords are hashed, and the hashes returned and
\* strings that are no hashes are checked against passwords.
NextPassword ==
    \/ \E password \in Passwords, salt \in Salts, refusesLong \in BOOLEAN :
          HashPassword(PolicyProc, password, salt, refusesLong)
    \/ \E x \in hashes, password \in Passwords :
          CheckPassword(PolicyProc, x.hash, password)
    \/ \E h \in MalformedHashes, password \in Passwords :
          CheckPassword(PolicyProc, h, password)

SpecPassword == Init /\ [][NextPassword]_vars

\* ------------------------------------------------------------- properties
\* The committed account rows with a given id / the lender rows with an id.
AccountsWithID(i) == {a \in accounts : a.Account_ID = i}
LendersWithID(i) == {l \in lenders : l.Lender_ID = i}

\* A call of CreateLenderAndAccount by p has returned in SpecRace.
Finished(p) == created[p] # NoCall
Failed(p) == Finished(p) /\ created[p].ret.err # ErrNil
Succeeded(p) == Finished(p) /\ created[p].ret.err = ErrNil

\* C1: a call of CreateLenderAndAccount that returns an error, on whichever
\* exit path, leaves the Lender rows and the Account rows (and the
\* AUTOINCREMENT sequences) as they were: the tables change only in the step
\* in which a call returns without error, and a Lender row that carries the
\* email of a failed call is the row of another, successful call.
C1_FailedCallChangesNoStep ==
    (lenders' # lenders \/ accounts' # accounts
        \/ seqLenders' # seqLenders \/ seqAccounts' # seqAccounts)
    => \E p \in Procs : ~Finished(p) /\ created'[p] # NoCall
                        /\ created'[p].ret.err = ErrNil
C1_FailedCallLeavesNoRow ==
    \A p \in Procs : Failed(p) =>
        \A l \in lenders : l.Email = created[p].args.email =>
            \E q \in Procs \ {p} :
                /\ Succeeded(q)
                /\ created[q].args.email = l.Email
                /\ l.Lender_ID = created[q].ret.id
C1_RollbackOnError ==
    [][C1_FailedCallChangesNoStep]_vars /\ []C1_FailedCallLeavesNoRow

\* C1 witness: a call got as far as the account insert, failed there on the
\* username of a committed account, and has returned.
C1_Witness ==
    \E p \in Procs :
        /\ Failed(p)
        /\ created[p].ret.err = ErrConstraint
        /\ created[p].args.interestRate \in 0..100
        /\ \A l \in lenders : l.Email # created[p].args.email
        /\ \E a \in accounts : a.Username = created[p].args.username

\* C2: of the calls of CreateLenderAndAccount that race on one username with
\* pairwise different emails (interest rates valid, no failure of the store
\* itself), exactly one commits and returns the id of the account; each of
\* the others returns an error and no Lender row carries its email.
Racing(p, q) ==
    /\ p # q
    /\ Finished(p) /\ Finished(q)
    /\ created[p].args.username = created[q].args.username
    /\ created[p].args.email # created[q].args.email
    /\ created[p].args.interestRate \in 0..100
    /\ created[q].args.interestRate \in 0..100
    /\ created[p].ret.err # ErrStore
    /\ created[q].ret.err # ErrStore
C2_ExactlyOneCommits ==
    \A p, q \in Procs : Racing(p, q) =>
        /\ Succeeded(p) # Succeeded(q)
        /\ Succeeded(p) =>
              /\ created[p].ret.id # 0
              /\ \A a \in accounts : a.Username = created[p].args.username
                    => a.Account_ID = created[p].ret.id
              /\ \E a \in accounts : a.Username = created[p].args.username
              /\ \A l \in lenders : l.Email # created[q].args.email
              /\ \E l \in lenders : l.Email = created[p].args.email

\* C2 witness: the two calls overlapped; the loser met the write lock of the
\* winner.
C2_Witness ==
    \E p, q \in Procs :
        /\ Racing(p, q)
        /\ Succeeded(p)
        /\ created[q].ret.err = ErrBusy

\* C3: what a connection can read never holds the Lender row of a creation
\* without its Account row: every committed Lender row has a committed
\* Account row that references it, and the rows of a transaction in flight
\* are in neither committed table.
C3_LenderVisibleWithAccount ==
    /\ \A l \in lenders : \E a \in accounts : a.Lender_ID = l.Lender_ID
    /\ \A p \in Procs : proc[p].pc \in CreatePcs =>
          /\ proc[p].txLenders \cap lenders = {}
          /\ proc[p].txAccounts \cap accounts = {}
          /\ \A r \in proc[p].txLenders : LendersWithID(r.Lender_ID) = {}
          /\ \A r \in proc[p].txAccounts : AccountsWithID(r.Account_ID) = {}

\* C3 witness: between the lender insert and the account insert of a
\* creation another connection looked the username up and found nothing.
C3_Witness ==
    \E p \in Procs :
        /\ proc[p].pc = "lender"
        /\ last.op = "GetAccountByUsername"
        /\ last.args.username = proc[p].args.username
        /\ last.ret.err = ErrAccountNotFound

\* C4: a call of CreateLenderAndAccount whose username and email are unused
\* and whose interest rate is in [0,100] returns a non-zero id and no error
\* (a constraint error means one of the three is violated), and the account
\* with that id has the username given and references a lender with the
\* business name, email and interest rate given.
C4_CreateRoundTrip ==
    last.op = "CreateLenderAndAccount" =>
        /\ last.ret.err = ErrConstraint =>
              \/ last.args.interestRate \notin 0..100
              \/ \E l \in lenders : l.Email = last.args.email
              \/ \E a \in accounts : a.Username = last.args.username
        /\ last.ret.err = ErrNil =>
              /\ last.ret.id # 0
              /\ LET r == GetAccount(AccountsWithID(last.ret.id), FALSE)
                 IN  /\ r.err = ErrNil
                     /\ \A acc \in r.account :
                          /\ acc.Username = last.args.username
                          /\ \E l \in lenders :
                               /\ l.Lender_ID = acc.LenderID
                               /\ l.Business_Name = last.args.businessName
                               /\ l.Email = last.args.email
                               /\ l.Interest_Rate_Percent = last.args.interestRate

\* C4 witness: the second creation has returned the second account id.
C4_Witness ==
    /\ last.op = "CreateLenderAndAccount"
    /\ last.ret.err = ErrNil
    /\ last.ret.id = 2
    /\ last.args.businessName = "Bolt"

\* C5: no two Account rows have the same username, whoever their lenders are.
C5_UsernameUnique ==
    \A a, b \in accounts : a.Username = b.Username => a = b

\* C5 witness: two accounts of two lenders, one of them logged in, and a
\* creation that has just been refused.
C5_Witness ==
    /\ last.op = "CreateLenderAndAccount"
    /\ last.ret.err = ErrConstraint
    /\ \E a \in accounts :
          /\ a.Username = last.args.username
          /\ a.Last_Login # <<>>
          /\ \A l \in lenders : l.Email # last.args.email

\* C6: every Account row references an existing Lender row, also after a
\* Lender row was deleted (the delete cascades to the accounts).
C6_AccountHasLender ==
    \A a \in accounts : LendersWithID(a.Lender_ID) # {}

\* C7: GetAccountByUsername and GetAccountByID return ErrAccountNotFound and
\* a nil account exactly when no Account row matches the key (and the store
\* did not fail); when a row matches they return that row and no error; the
\* only other error is the failure of the store, passed through as it is.
C7_Rows ==
    IF last.op = "GetAccountByUsername"
    THEN {a \in accounts : a.Username = last.args.username}
    ELSE AccountsWithID(last.args.accountID)
C7_AccountNotFound ==
    last.op \in {"GetAccountByUsername", "GetAccountByID"} =>
        /\ last.ret.err \in {ErrNil, ErrAccountNotFound, ErrStore}
        /\ last.ret.err = ErrAccountNotFound =>
              C7_Rows = {} /\ last.ret.account = {}
        /\ last.ret.err = ErrStore => last.ret.account = {}
        /\ C7_Rows = {} => last.ret.err # ErrNil
        /\ last.ret.err = ErrNil =>
              /\ Cardinality(last.ret.account) = 1
              /\ \A acc \in last.ret.account : \E a \in C7_Rows :
                    /\ acc.AccountID = a.Account_ID
                    /\ acc.LenderID = a.Lender_ID
                    /\ acc.Username = a.Username
                    /\ acc.PasswordHash = a.Password_Hash
                    /\ acc.LastLogin.Valid = (a.Last_Login # <<>>)

\* C7 witness: an id that matches no row was looked up while another account
\* exists.
C7_Witness ==
    /\ last.op = "GetAccountByID"
    /\ last.ret.err = ErrAccountNotFound
    /\ accounts # {}

C9_MissingID ==
    last'.op = "UpdateLastLogin" /\ AccountsWithID(last'.args.accountID) = {}
C9_UpdateMissingIsNoOp ==
    [][C9_MissingID =>
          /\ accounts' = accounts
          /\ lenders' = lenders
          /\ last'.ret.err \in {ErrNil, ErrStore, ErrBusy}
          /\ last'.ret.err = ErrBusy => writer # NoWriter]_vars

\* C9 witness: an UpdateLastLogin on an id without a row has returned nil
\* while other accounts exist.
C9_Witness ==
    /\ last.op = "UpdateLastLogin"
    /\ last.ret.err = ErrNil
    /\ AccountsWithID(last.args.accountID) = {}
    /\ accounts # {}

\* C10: the Last_Login of an account is NULL when the account is created,
\* changes only in a successful UpdateLastLogin on its id, is then read back
\* as a non-null time equal to the wall clock of that call, and never
\* returns to NULL.
C10_Step(i) ==
    LET old == AccountsWithID(i)
        new == {a \in accounts' : a.Account_ID = i}
        updated == /\ last'.op = "UpdateLastLogin"
                   /\ last'.args.accountID = i
                   /\ last'.ret.err = ErrNil
    IN  /\ (old = {} /\ new # {}) =>
              \A a \in new : ScanAccount(a).LastLogin = NullTime
        /\ old # {} =>
              /\ Cardinality(new) = 1
              /\ \A a \in old, b \in new :
                    /\ updated => ScanAccount(b).LastLogin = ValidTime(now)
                    /\ ~updated => b.Last_Login = a.Last_Login
                    /\ ScanAccount(a).LastLogin.Valid => ScanAccount(b).LastLogin.Valid
C10_LastLogin == [][\A i \in IDs : C10_Step(i)]_vars

\* C10 witness: an account created at instant 0 was logged in at instant 1
\* and shows that instant.
C10_Witness ==
    /\ now = 1
    /\ last.op = "UpdateLastLogin"
    /\ last.ret.err = ErrNil
    /\ \E a \in AccountsWithID(last.args.accountID) :
          /\ ScanAccount(a).CreatedAt = 0
          /\ ScanAccount(a).LastLogin = ValidTime(1)

\* ------------------------------------------------ properties, token engine
\* The positions inside a generator, after its first reading of the clock.
MintPcs == {"issuedAt", "refresh"}

\* The failure kind a caller tells from an error: by errors.Is against the
\* parser's errors, or by the message of the errors the engine makes.
Kind(err) ==
    CASE err = ErrEmptySecret -> "EmptySecret"
      [] err = ErrTokenMalformed -> "Malformed"
      [] err \in {ErrTokenSignatureInvalid, ErrInvalidSignatureUserID} -> "InvalidSignature"
      [] err \in {ErrTokenExpired, ErrTokenExpiredUserID} -> "Expired"
      [] err = ErrNil -> "none"
      [] OTHER -> "other"

\* C11: GenerateAccessToken, GenerateRefreshToken and GenerateTokenPair
\* called with an empty secret key return the error "secret key cannot be
\* empty" and no token, and no generator gets as far as building or signing
\* claims with an empty secret.
C11_EmptySecretRejected ==
    /\ \A p \in Procs :
          proc[p].pc \in MintPcs => proc[p].secretKey # EmptySecret
    /\ (last.op \in GenerateOps /\ last.args.secretKey = EmptySecret) =>
          (last.ret.err = ErrEmptySecret /\ last.ret.token = NoToken)
    /\ (last.op \in PairOps /\ last.args.secretKey = EmptySecret) =>
          (last.ret.err = ErrEmptySecret /\ last.ret.pair = {})

\* C12: ValidateToken called with an empty secret key fails with "secret
\* key cannot be empty" and returns no claims, whatever the token string.
C12_EmptySecretFailsValidation ==
    (last.op \in ValidateOps /\ last.args.secretKey = EmptySecret) =>
        (last.ret.err = ErrEmptySecret /\ last.ret.claims = {})

\* The token string is one that a generator returns for secret s.
IssuedUnder(tokenString, s) ==
    /\ Intact(tokenString)
    /\ tokenString.header.alg = "HS256"
    /\ tokenString.signature =
          Sign("HS256", SigningString(tokenString.header, tokenString.payload), s)

\* The instant the token's embedded expiry stands for.
Expiry(tokenString) == NumericDateTime(tokenString.payload.exp)

\* C13 as stated: for every pair of different non-empty secrets s1 and s2,
\* ValidateToken(t, s2) on a token t issued under s1 fails with the
\* InvalidSignature error and returns no claims.
C13_DifferentSecretRejected ==
    (/\ last.op \in ValidateOps
     /\ last.args.secretKey # EmptySecret
     /\ \E s1 \in Secrets :
           /\ s1 # EmptySecret
           /\ s1 # last.args.secretKey
           /\ IssuedUnder(last.args.tokenString, s1))
    => (Kind(last.ret.err) = "InvalidSignature" /\ last.ret.claims = {})

\* C13 as amended: for every pair of non-empty secrets s1 and s2 that are
\* different HMAC keys (they differ other than in trailing zero bytes),
\* ValidateToken(t, s2) on a token t issued under s1 fails with the
\* InvalidSignature error and returns no claims, expired or not.
C13_DifferentKeyRejected ==
    (/\ last.op \in ValidateOps
     /\ last.args.secretKey # EmptySecret
     /\ \E s1 \in Secrets :
           /\ s1 # EmptySecret
           /\ HMACKey(s1) # HMACKey(last.args.secretKey)
           /\ IssuedUnder(last.args.tokenString, s1))
    => (Kind(last.ret.err) = "InvalidSignature" /\ last.ret.claims = {})

\* C13 witness: an expired token issued under one key has been validated
\* under another and rejected for its signature.
C13_Witness ==
    /\ last.op = "ValidateToken"
    /\ last.args.secretKey = <<2>>
    /\ IssuedUnder(last.args.tokenString, <<1>>)
    /\ last.args.now > Expiry(last.args.tokenString)
    /\ last.ret.err = ErrTokenSignatureInvalid

\* The token string is well formed, declares an HMAC algorithm and carries
\* the MAC of its header and payload under secret s.
CorrectlySigned(tokenString, s) ==
    /\ WellFormed(tokenString)
    /\ tokenString.header.alg \in SigningMethodHMAC
    /\ tokenString.signature =
          Sign(tokenString.header.alg,
               SigningString(tokenString.header, tokenString.payload), s)

\* The leeway of the validator that made the call recorded in last.
LeewayOf(op) == IF op = "ValidateTokenUserID" THEN Leeway ELSE 0

\* C14 as stated: ValidateToken on a correctly signed token whose embedded
\* expiry is in the past at validation time fails with the Expired error
\* and returns no claims.
C14_ExpiredRejected ==
    (/\ last.op \in ValidateOps
     /\ last.args.secretKey # EmptySecret
     /\ CorrectlySigned(last.args.tokenString, last.args.secretKey)
     /\ Expiry(last.args.tokenString) < last.args.now)
    => (Kind(last.ret.err) = "Expired" /\ last.ret.claims = {})

\* C14 as amended: ValidateToken on a correctly signed token fails with the
\* Expired error and returns no claims when the validation time is not
\* before the embedded expiry plus the validator's leeway (no leeway in
\* jwt.go, five seconds in the user-id variant).
C14_ExpiredPastLeewayRejected ==
    (/\ last.op \in ValidateOps
     /\ last.args.secretKey # EmptySecret
     /\ CorrectlySigned(last.args.tokenString, last.args.secretKey)
     /\ Expiry(last.args.tokenString) + LeewayOf(last.op) <= last.args.now)
    => (Kind(last.ret.err) = "Expired" /\ last.ret.claims = {})

\* C14 witness: the user-id validator has rejected as expired a correctly
\* signed token presented exactly when its leeway ran out.
C14_Witness ==
    /\ last.op = "ValidateTokenUserID"
    /\ CorrectlySigned(last.args.tokenString, last.args.secretKey)
    /\ last.args.now = Expiry(last.args.tokenString) + Leeway
    /\ last.ret.err = ErrTokenExpiredUserID
    /\ last.ret.claims = {}

\* C15: ValidateToken tolerates a clock-skew leeway of five seconds: a
\* correctly signed token presented later than its expiry by less than the
\* leeway is accepted and its claims returned, and a correctly signed token
\* is rejected as Expired only when the clock has reached expiry plus leeway.
C15_LeewayTolerated ==
    (/\ last.op \in ValidateOps
     /\ last.args.secretKey # EmptySecret
     /\ CorrectlySigned(last.args.tokenString, last.args.secretKey))
    => /\ last.args.now < Expiry(last.args.tokenString) + Leeway
          => (last.ret.err = ErrNil /\ last.ret.claims # {})
       /\ Kind(last.ret.err) = "Expired"
          => last.args.now >= Expiry(last.args.tokenString) + Leeway

\* The token string verifies under secret s: it declares an algorithm of
\* the HMAC family and its signature is the MAC of its content under s.
SignatureVerifies(tokenString, s) ==
    /\ tokenString.header.alg \in SigningMethodHMAC
    /\ tokenString.signature =
          Sign(tokenString.header.alg,
               SigningString(tokenString.header, tokenString.payload), s)

\* The failure kind the fixed order EmptySecret, Malformed,
\* InvalidSignature, Expired gives a validation of tokenString under s at
\* instant at with the given leeway.
KindInOrder(tokenString, s, at, leeway) ==
    IF s = EmptySecret THEN "EmptySecret"
    ELSE IF ~WellFormed(tokenString) THEN "Malformed"
    ELSE IF ~SignatureVerifies(tokenString, s) THEN "InvalidSignature"
    ELSE IF at >= Expiry(tokenString) + leeway THEN "Expired"
    ELSE "none"

\* C16: ValidateToken reports exactly one failure kind per call, chosen in
\* the fixed order EmptySecret, Malformed, InvalidSignature, Expired (an
\* expired token signed under a different secret yields InvalidSignature, a
\* string that is no token yields Malformed), and claims are returned only
\* when there is no failure.
C16_FailureKindOrder ==
    last.op \in ValidateOps =>
        /\ Kind(last.ret.err) =
              KindInOrder(last.args.tokenString, last.args.secretKey,
                          last.args.now, LeewayOf(last.op))
        /\ (last.ret.claims # {}) <=> (last.ret.err = ErrNil)

\* C17: ValidateToken on a token whose header declares a signing algorithm
\* outside the HMAC family fails with the InvalidSignature error kind and
\* returns no claims.
C17_AlgorithmMismatchIsInvalidSignature ==
    (/\ last.op \in ValidateOps
     /\ last.args.secretKey # EmptySecret
     /\ WellFormed(last.args.tokenString)
     /\ last.args.tokenString.header.alg \notin SigningMethodHMAC)
    => (Kind(last.ret.err) = "InvalidSignature" /\ last.ret.claims = {})

\* The validator of the variant whose generator is recorded under op.
ValidatorOf(op) ==
    IF op \in {"GenerateAccessToken", "GenerateRefreshToken", "GenerateTokenPair"}
    THEN "ValidateToken" ELSE "ValidateTokenUserID"

\* The tokens a successful generator call recorded in call has returned.
TokensOf(call) ==
    IF call.op \in GenerateOps /\ call.ret.err = ErrNil THEN {call.ret.token}
    ELSE IF call.op \in PairOps /\ call.ret.err = ErrNil
    THEN UNION {{pr.AccessToken, pr.RefreshToken} : pr \in call.ret.pair}
    ELSE {}

\* The identity the claims carry, in the shape the generator was given it.
IdentityOf(op, claims) ==
    IF op = "ValidateToken" THEN <<claims.AccountID, claims.LenderID>>
    ELSE claims.UserID

\* A step in which a token the latest generator call returned is validated
\* by the same variant under the secret it was minted with, before its
\* expiry: the validation succeeds and the claims carry the identity the
\* generator was given.
C18_Step ==
    (/\ last'.op = ValidatorOf(last.op)
     /\ last'.args.tokenString \in TokensOf(last)
     /\ last.args.secretKey # EmptySecret
     /\ last'.args.secretKey = last.args.secretKey
     /\ last'.args.now < Expiry(last'.args.tokenString))
    => /\ last'.ret.err = ErrNil
       /\ \E c \in last'.ret.claims :
             IdentityOf(last'.op, c) = last.args.identity

\* C18: round trip: for every identity and every non-empty secret,
\* ValidateToken on a token minted by GenerateAccessToken or
\* GenerateRefreshToken (alone or inside GenerateTokenPair) with that
\* identity and secret, under the same secret and before the token's
\* expiry, returns no error and claims carrying exactly that identity.
C18_RoundTrip == [][C18_Step]_vars

\* C18 witness: a refresh token minted for account 1 of lender 2 has been
\* validated after the lifetime of an access token and returned (1, 2).
C18_Witness ==
    /\ last.op = "ValidateToken"
    /\ last.args.secretKey # EmptySecret
    /\ IssuedUnder(last.args.tokenString, last.args.secretKey)
    /\ last.args.now > AccessTokenDuration + Leeway
    /\ last.ret.err = ErrNil
    /\ \E c \in last.ret.claims : c.AccountID = 1 /\ c.LenderID = 2

\* The duration, in seconds, of the token kind op mints.
SecondsOf(op) ==
    IF op \in {"GenerateAccessToken", "GenerateAccessTokenUserID"}
    THEN AccessTokenDuration \div TicksPerSec
    ELSE RefreshTokenDuration \div TicksPerSec

\* C19: in every token minted by GenerateAccessToken the embedded
\* expires-at equals the embedded issued-at plus exactly 15 minutes, and in
\* every token minted by GenerateRefreshToken issued-at plus exactly 7 days,
\* whatever the clock does between the generator's two readings of it.
C19_ExpiryIsIssuedAtPlusDuration ==
    (last.op \in GenerateOps /\ last.ret.err = ErrNil) =>
        last.ret.token.payload.exp = last.ret.token.payload.iat + SecondsOf(last.op)

\* The identity fields of a payload.
PayloadIdentity(payload) ==
    [f \in DOMAIN payload \ {"exp", "iat"} |-> payload[f]]

\* C20: every TokenPair returned by GenerateTokenPair holds an access token
\* and a refresh token that carry the same identity and the same issued-at
\* instant, the access token expiring at that instant plus 15 minutes and
\* the refresh token at that instant plus 7 days.
C20_PairMintedAtOneInstant ==
    (last.op \in PairOps /\ last.ret.err = ErrNil) =>
        \A pr \in last.ret.pair :
            /\ PayloadIdentity(pr.AccessToken.payload) =
                  PayloadIdentity(pr.RefreshToken.payload)
            /\ pr.AccessToken.payload.iat = pr.RefreshToken.payload.iat
            /\ pr.AccessToken.payload.exp =
                  pr.AccessToken.payload.iat + AccessTokenDuration \div TicksPerSec
            /\ pr.RefreshToken.payload.exp =
                  pr.AccessToken.payload.iat + RefreshTokenDuration \div TicksPerSec


\* The errors the generators of single tokens return.
IssuanceErrors == {ErrEmptySecret}

\* C21: GenerateTokenPair returns either a pair whose two token strings are
\* both non-empty together with a nil error, or a nil pair together with the
\* error of the issuance that failed; it never returns a pair beside an
\* error, nor a pair that lacks one of its tokens.
C21_PairAllOrNothing ==
    last.op \in PairOps =>
        \/ /\ last.ret.err = ErrNil
           /\ Cardinality(last.ret.pair) = 1
           /\ \A pr \in last.ret.pair :
                 /\ pr.AccessToken # NoToken /\ WellFormed(pr.AccessToken)
                 /\ pr.RefreshToken # NoToken /\ WellFormed(pr.RefreshToken)
        \/ /\ last.ret.err \in IssuanceErrors
           /\ last.ret.pair = {}

\* A GenerateTokenPair call has failed and returned a nil pair.
C21_Witness ==
    /\ last.op = "GenerateTokenPairUserID"
    /\ last.ret.err = ErrEmptySecret
    /\ last.ret.pair = {}

\* The validator an Extract function calls, and the field it returns.
ValidatorCalledBy(op) ==
    IF op = "ExtractUserID" THEN "ValidateTokenUserID" ELSE "ValidateToken"
FieldReturnedBy(op) ==
    CASE op = "ExtractAccountID" -> "AccountID"
      [] op = "ExtractLenderID" -> "LenderID"
      [] op = "ExtractUserID" -> "UserID"

\* A step in which an Extract function is called right after its validator
\* with the same token and secret at the same instant: it fails exactly when
\* the validator failed, with the same error and the id 0, and otherwise
\* returns the value of its field in the claims the validator returned.
C22_Step ==
    (/\ last.op \in ValidateOps
     /\ last'.op \in ExtractOps
     /\ last.op = ValidatorCalledBy(last'.op)
     /\ last'.args = last.args)
    => IF last.ret.err # ErrNil
       THEN last'.ret = [id |-> 0, err |-> last.ret.err]
       ELSE /\ last'.ret.err = ErrNil
            /\ \A c \in last.ret.claims : last'.ret.id = c[FieldReturnedBy(last'.op)]

\* C22: ExtractAccountID, ExtractLenderID and ExtractUserID agree with
\* ValidateToken on every token and secret: they return an error exactly
\* when ValidateToken does, the same error and the id 0, and otherwise the
\* id that stands in the matching field of the claims ValidateToken returns.
C22_ExtractAgreesWithValidate == [][C22_Step]_vars

\* ExtractLenderID has returned the lender id of a valid token.
C22_Witness ==
    /\ last.op = "ExtractLenderID"
    /\ last.ret.err = ErrNil
    /\ last.ret.id = last.args.tokenString.payload.LenderID
    /\ last.ret.id # last.args.tokenString.payload.AccountID

Corresponds(hashedPassword, password) ==
    /\ IsEncodedHash(hashedPassword)
    /\ hashedPassword.hash = Bcrypt(password, hashedPassword.cost, hashedPassword.salt)

\* C25: CheckPassword returns the same failure when the plaintext does not
\* correspond to the hash, when the hash is empty and when the hash is no
\* well-formed bcrypt hash, so that the error does not tell which of the
\* three occurred; it returns nil exactly when the plaintext corresponds to
\* the hash.
C25_UniformFailure ==
    last.op = "CheckPassword" =>
        /\ (last.ret.err = ErrNil) <=>
              Corresponds(last.args.hashedPassword, last.args.password)
        /\ last.ret.err \in {ErrNil, ErrMismatchedHashAndPassword}

\* A hash string HashPassword returned for p is checked against q.
CheckedAgainst(x) ==
    /\ last.op = "CheckPassword"
    /\ last.args.hashedPassword = x.hash

\* C26: for every password p, two calls HashPassword(p) return two
\* different non-empty hash strings, CheckPassword(h, p) succeeds for each
\* returned hash h, and CheckPassword(h, q) fails for every q different
\* from p.
C26_HashRoundTrip ==
    /\ [](last.op = "HashPassword" =>
             (last.ret.err = ErrNil /\ last.ret.hash # NoHash))
    /\ [][(last'.op = "HashPassword" /\ last' # last) =>
             last'.ret.hash \notin {x.hash : x \in hashes}]_vars
    /\ [](\A x \in hashes :
             CheckedAgainst(x) =>
                ((last.ret.err = ErrNil) <=> (last.args.password = x.password)))

\* The errors that report an expired token.
ExpiredErrors == {ErrTokenExpired, ErrTokenExpiredUserID}

\* A validation step leaves the token, the clock and the store as they are.
C23_ReadOnly ==
    (last'.op \in ValidateOps /\ last' # last) =>
        UNCHANGED <<held, now, lenders, accounts, seqLenders, seqAccounts, writer>>

\* A validation of the held token, minted under the secret of the call,
\* before the token's expiry succeeds, with the claims of every successful
\* validation under that secret before it.
C23_ValidUntilExpiry ==
    (/\ last.op \in ValidateOps
     /\ IssuedUnder(last.args.tokenString, last.args.secretKey)
     /\ last.args.now < Expiry(last.args.tokenString))
    => /\ last.ret.err = ErrNil
       /\ last.ret.claims # {}
       /\ \A v \in verdicts :
             (v.secretKey = last.args.secretKey /\ v.ret.err = ErrNil)
             => v.ret.claims = last.ret.claims

\* After a validation of the held token under a secret has returned
\* Expired, a validation under that secret returns Expired.
C23_ExpiredForGood ==
    \A v \in verdicts :
        (/\ last.op \in ValidateOps
         /\ v.secretKey = last.args.secretKey
         /\ v.ret.err \in ExpiredErrors)
        => last.ret.err \in ExpiredErrors

\* C23: validation is read-only and there is no revocation: once a token is
\* minted under a secret, every ValidateToken call with that secret before
\* the token's expiry succeeds with the same claims, however often the token
\* was validated before and whatever CreateLenderAndAccount, UpdateLastLogin
\* or change of the locked flag happened in between; and once a call has
\* returned Expired, every later call returns Expired.
C23_NoRevocation ==
    /\ [](C23_ValidUntilExpiry /\ C23_ExpiredForGood)
    /\ [][C23_ReadOnly]_vars

\* A token is validated with success although the account its claims name
\* was locked and its last login written after the token was validated
\* before.
C23_Witness ==
    /\ last.op = "ValidateToken"
    /\ last.ret.err = ErrNil
    /\ Cardinality(verdicts) > 1
    /\ \E c \in last.ret.claims, a \in accounts :
          /\ a.Account_ID = c.AccountID
          /\ a.Is_Locked = 1
          /\ a.Last_Login # <<>>

\* A validation has returned Expired after an earlier one of the same
\* token under the same secret succeeded.
C23_WitnessExpired ==
    /\ last.op \in ValidateOps
    /\ last.ret.err \in ExpiredErrors
    /\ \E v \in verdicts : v.secretKey = last.args.secretKey /\ v.ret.err = ErrNil

\* ------------------------------------------- properties, writes of the store
\* The instant at which the second of instant t begins: the resolution of
\* CURRENT_TIMESTAMP.
SecondOf(t) == (t \div TicksPerSec) * TicksPerSec

\* A step that writes the Account row i, a successful UpdateLastLogin among
\* them, leaves the row with the second of the write as its Updated_At.
C27_Step(i) ==
    LET new == {a \in accounts' : a.Account_ID = i}
        updated == /\ last'.op = "UpdateLastLogin"
                   /\ last'.args.accountID = i
                   /\ last'.ret.err = ErrNil
    IN  \A a \in AccountsWithID(i), b \in new :
            (b # a \/ updated) => ScanAccount(b).UpdatedAt = SecondOf(now')

\* C27: every write to an Account row updates the row's Updated_At: after a
\* successful UpdateLastLogin on an existing account the Updated_At is the
\* time of the write, in the whole seconds of the store's clock, although
\* the statement of UpdateLastLogin sets Last_Login only.
C27_UpdatedAtFollowsWrites == [][\A i \in IDs : C27_Step(i)]_vars

\* An account created in the first second was logged in in the next one,
\* and its Updated_At is no longer the instant of its creation.
C27_Witness ==
    /\ last.op = "UpdateLastLogin"
    /\ last.ret.err = ErrNil
    /\ now = TicksPerSec
    /\ \E a \in AccountsWithID(last.args.accountID) :
          /\ ScanAccount(a).CreatedAt < TicksPerSec
          /\ ScanAccount(a).UpdatedAt = now
          /\ ScanAccount(a).UpdatedAt # ScanAccount(a).CreatedAt

\* C28: whenever CreateLenderAndAccount returns a non-nil error the account
\* id it returns is 0; a non-zero id is returned only with a nil error,
\* that is, only when the transaction committed.
C28_ErrorMeansZeroID ==
    (last.op = "CreateLenderAndAccount" /\ last.ret.err # ErrNil)
    => last.ret.id = 0

\* The fields of an Account row that UpdateLastLogin may not change.
KeptFields(a) ==
    [Account_ID |-> a.Account_ID, Lender_ID |-> a.Lender_ID,
     Username |-> a.Username, Password_Hash |-> a.Password_Hash,
     Created_At |-> a.Created_At, Is_Locked |-> a.Is_Locked]

\* A step in which UpdateLastLogin(i) on an existing account succeeds.
C29_Step(i) ==
    (/\ last'.op = "UpdateLastLogin"
     /\ last'.args.accountID = i
     /\ last'.ret.err = ErrNil
     /\ AccountsWithID(i) # {})
    => /\ {KeptFields(a) : a \in {b \in accounts' : b.Account_ID = i}} =
             {KeptFields(a) : a \in AccountsWithID(i)}
       /\ {a \in accounts' : a.Account_ID # i} = {a \in accounts : a.Account_ID # i}
       /\ lenders' = lenders

\* C29: a successful UpdateLastLogin(i) on an existing account changes only
\* that account's Last_Login and Updated_At: its username, password hash,
\* Lender_ID, Created_At and locked flag, every other Account row and every
\* Lender row are unchanged.
C29_UpdateLastLoginFrame == [][\A i \in IDs : C29_Step(i)]_vars

\* UpdateLastLogin has succeeded on one of two accounts.
C29_Witness ==
    /\ last.op = "UpdateLastLogin"
    /\ last.ret.err = ErrNil
    /\ Cardinality(accounts) = 2
    /\ lenders # {}
    /\ \E a \in AccountsWithID(last.args.accountID) :
          ScanAccount(a).LastLogin = ValidTime(now)
    /\ \E a \in accounts : a.Account_ID # last.args.accountID /\ a.Last_Login = <<>>

\* Every Lender row has an interest rate in [0,100] and an email of its own.
C30_LenderRows ==
    \A l \in lenders :
        /\ l.Interest_Rate_Percent >= 0
        /\ l.Interest_Rate_Percent <= 100
        /\ \A m \in lenders : m.Email = l.Email => m = l

\* A step in which a CreateLenderAndAccount call returns whose interest rate
\* is out of range or whose email a Lender row has: the call returns an
\* error, from no later than its lender insert, and the rows are as before.
C30_Step ==
    (/\ last'.op = "CreateLenderAndAccount"
     /\ \E p \in Procs : ~IsIdle(p) /\ proc'[p] = Idle
     /\ \/ last'.args.interestRate < 0
        \/ last'.args.interestRate > 100
        \/ \E l \in lenders : l.Email = last'.args.email)
    => /\ last'.ret.err # ErrNil
       /\ \A p \in Procs : (~IsIdle(p) /\ proc'[p] = Idle) => proc[p].pc = "begun"
       /\ lenders' = lenders
       /\ accounts' = accounts

\* C30: in every reachable state every Lender row has an interest rate in
\* [0,100] and a unique email: a CreateLenderAndAccount with an interest rate
\* below 0 or above 100, or with an email that a Lender row has, fails at the
\* lender insert, returns an error and creates neither a Lender row nor an
\* Account row, even when the username is unused.
C30_LenderConstraints == []C30_LenderRows /\ [][C30_Step]_vars

\* A call with the email of a Lender row and an unused username has failed
\* on the constraint.
C30_Witness ==
    /\ last.op = "CreateLenderAndAccount"
    /\ last.ret.err = ErrConstraint
    /\ \E l \in lenders : l.Email = last.args.email
    /\ LenderCheck(last.args.interestRate)
    /\ \A a \in accounts : a.Username # last.args.username

=============================================================================
